---- MODULE Spec2Model ----
(***************************************************************************)
(* Model of SimpleSpotifyMCPClient (backend/src/utils/spotifyMCP-Client.ts) *)
(* : the session handshake with 429 backoff, callTool/listTools, close(),  *)
(* and the decoding of a response body (JSON first, then event stream).    *)
(*                                                                         *)
(* Text is modelled as a sequence of one-character strings, so that        *)
(* split, startsWith, substring, trim and JSON.parse are computed and not  *)
(* assumed.                                                                *)
(***************************************************************************)
EXTENDS Integers, Sequences, FiniteSets, TLC

(***************************************************************************)
(* JavaScript values produced by JSON.parse, and `undefined`.              *)
(***************************************************************************)
Undefined == [t |-> "undefined"]
JNull == [t |-> "null"]
JBool(b) == [t |-> "bool", b |-> b]
JNum(n) == [t |-> "num", n |-> n]
JStr(s) == [t |-> "str", s |-> s]
JArr(a) == [t |-> "arr", a |-> a]
JObj(o) == [t |-> "obj", o |-> o]

(***************************************************************************)
(* JSON.parse on the texts of Bodies: whitespace, the literals null, true   *)
(* and false, integers, strings (with the escapes \" \\ \/ \n \t \r), arrays   *)
(* and objects (a repeated key keeps its first place and its last value).  *)
(* No body puts a fraction or an exponent after a digit.                   *)
(***************************************************************************)
IsWs(c) == c \in {" ", "\t", "\n", "\r"}
IsDigit(c) == c \in {"0", "1", "2", "3", "4", "5", "6", "7", "8", "9"}
DigitVal(c) ==
  CASE c = "0" -> 0 [] c = "1" -> 1 [] c = "2" -> 2 [] c = "3" -> 3
    [] c = "4" -> 4 [] c = "5" -> 5 [] c = "6" -> 6 [] c = "7" -> 7
    [] c = "8" -> 8 [] OTHER -> 9

RECURSIVE skipWs(_, _)
skipWs(s, i) == IF i <= Len(s) /\ IsWs(s[i]) THEN skipWs(s, i + 1) ELSE i

PFail == [ok |-> FALSE, v |-> Undefined, i |-> 0]
POk(v, i) == [ok |-> TRUE, v |-> v, i |-> i]

matchLit(s, i, lit) ==
  /\ i + Len(lit) - 1 <= Len(s)
  /\ \A k \in 1..Len(lit) : s[i + k - 1] = lit[k]

RECURSIVE parseDigits(_, _, _)
parseDigits(s, i, acc) ==
  IF i <= Len(s) /\ IsDigit(s[i])
    THEN parseDigits(s, i + 1, acc * 10 + DigitVal(s[i]))
    ELSE [n |-> acc, i |-> i]

parseNumber(s, i) ==
  LET neg == i <= Len(s) /\ s[i] = "-"
      j == IF neg THEN i + 1 ELSE i
  IN IF j > Len(s) \/ ~IsDigit(s[j]) THEN PFail
     ELSE IF s[j] = "0" THEN POk(JNum(0), j + 1)
     ELSE LET d == parseDigits(s, j, 0)
          IN POk(JNum(IF neg THEN 0 - d.n ELSE d.n), d.i)

EscapeChar(c) ==
  CASE c = "n" -> "\n" [] c = "t" -> "\t" [] c = "r" -> "\r" [] OTHER -> c

RECURSIVE parseChars(_, _, _)
parseChars(s, i, acc) ==
  IF i > Len(s) THEN PFail
  ELSE IF s[i] = "\"" THEN POk(JStr(acc), i + 1)
  ELSE IF s[i] \in {"\n", "\t", "\r"} THEN PFail
  ELSE IF s[i] = "\\"
    THEN IF i + 1 <= Len(s) /\ s[i + 1] \in {"\"", "\\", "/", "n", "t", "r"}
           THEN parseChars(s, i + 2, Append(acc, EscapeChar(s[i + 1])))
           ELSE PFail
  ELSE parseChars(s, i + 1, Append(acc, s[i]))

parseString(s, i) ==
  IF i <= Len(s) /\ s[i] = "\"" THEN parseChars(s, i + 1, <<>>) ELSE PFail

RECURSIVE putKey(_, _, _)
putKey(o, k, v) ==
  IF o = <<>> THEN <<[k |-> k, v |-> v]>>
  ELSE IF Head(o).k = k THEN <<[k |-> k, v |-> v]>> \o Tail(o)
  ELSE <<Head(o)>> \o putKey(Tail(o), k, v)

RECURSIVE parseValue(_, _)
RECURSIVE parseElements(_, _, _)
RECURSIVE parseMembers(_, _, _)

parseElements(s, i, acc) ==
  LET e == parseValue(s, i)
      j == skipWs(s, e.i)
  IN IF ~e.ok \/ j > Len(s) THEN PFail
     ELSE IF s[j] = "]" THEN POk(JArr(Append(acc, e.v)), j + 1)
     ELSE IF s[j] = "," THEN parseElements(s, j + 1, Append(acc, e.v))
     ELSE PFail

parseMembers(s, i, acc) ==
  LET k == parseString(s, skipWs(s, i))
      c == skipWs(s, k.i)
  IN IF ~k.ok \/ c > Len(s) \/ s[c] # ":" THEN PFail
     ELSE LET e == parseValue(s, c + 1)
              j == skipWs(s, e.i)
              o == putKey(acc, k.v.s, e.v)
          IN IF ~e.ok \/ j > Len(s) THEN PFail
             ELSE IF s[j] = "}" THEN POk(JObj(o), j + 1)
             ELSE IF s[j] = "," THEN parseMembers(s, j + 1, o)
             ELSE PFail

parseValue(s, i0) ==
  LET i == skipWs(s, i0)
  IN IF i > Len(s) THEN PFail
     ELSE IF s[i] = "{"
       THEN LET j == skipWs(s, i + 1)
            IN IF j <= Len(s) /\ s[j] = "}" THEN POk(JObj(<<>>), j + 1)
               ELSE parseMembers(s, i + 1, <<>>)
     ELSE IF s[i] = "["
       THEN LET j == skipWs(s, i + 1)
            IN IF j <= Len(s) /\ s[j] = "]" THEN POk(JArr(<<>>), j + 1)
               ELSE parseElements(s, i + 1, <<>>)
     ELSE IF s[i] = "\"" THEN parseString(s, i)
     ELSE IF s[i] = "-" \/ IsDigit(s[i]) THEN parseNumber(s, i)
     ELSE IF matchLit(s, i, <<"n", "u", "l", "l">>) THEN POk(JNull, i + 4)
     ELSE IF matchLit(s, i, <<"t", "r", "u", "e">>) THEN POk(JBool(TRUE), i + 4)
     ELSE IF matchLit(s, i, <<"f", "a", "l", "s", "e">>) THEN POk(JBool(FALSE), i + 5)
     ELSE PFail

\* JSON.parse(text): ok = FALSE stands for the SyntaxError it throws.
JSONparse(s) ==
  LET r == parseValue(s, 1)
  IN IF r.ok /\ skipWs(s, r.i) = Len(s) + 1
       THEN [ok |-> TRUE, v |-> r.v]
       ELSE [ok |-> FALSE, v |-> Undefined]

(***************************************************************************)
(* JavaScript string and value operations used by the client.              *)
(***************************************************************************)
\* String.prototype.split("\n"): the lines of s from position i on
RECURSIVE splitFrom(_, _, _)
splitFrom(s, i, acc) ==
  LET nls == {j \in i..Len(s) : s[j] = "\n"}
  IN IF nls = {} THEN Append(acc, SubSeq(s, i, Len(s)))
     ELSE LET j == CHOOSE m \in nls : \A k \in nls : m <= k
          IN splitFrom(s, j + 1, Append(acc, SubSeq(s, i, j - 1)))

split(s) == splitFrom(s, 1, <<>>)

\* String.prototype.startsWith
startsWith(s, p) == Len(s) >= Len(p) /\ SubSeq(s, 1, Len(p)) = p

\* String.prototype.substring(from) and substring(0, to)
substringFrom(s, from) == SubSeq(s, from + 1, Len(s))
substringToInclusive(s, to) ==
  SubSeq(s, 1, IF Len(s) < to + 1 THEN Len(s) ELSE to + 1)
substringTo(s, to) == SubSeq(s, 1, IF Len(s) < to THEN Len(s) ELSE to)

\* String.prototype.trim
RECURSIVE trimStart(_)
trimStart(s) == IF s # <<>> /\ IsWs(Head(s)) THEN trimStart(Tail(s)) ELSE s
RECURSIVE trimEnd(_)
trimEnd(s) ==
  IF s # <<>> /\ IsWs(s[Len(s)]) THEN trimEnd(SubSeq(s, 1, Len(s) - 1)) ELSE s
trim(s) == trimEnd(trimStart(s))

\* property read v.k for k one of error, message, result: only an object has
\* such an own property (on null the read throws, see sendRequestResponse)
RECURSIVE lookup(_, _)
lookup(o, k) ==
  IF o = <<>> THEN Undefined
  ELSE IF Head(o).k = k THEN Head(o).v
  ELSE lookup(Tail(o), k)

Get(v, k) == IF v.t = "obj" THEN lookup(v.o, k) ELSE Undefined

truthyIfPresent(v) == v.t # "undefined"
\* ToBoolean
truthy(v) ==
  CASE v.t \in {"undefined", "null"} -> FALSE
    [] v.t = "bool" -> v.b
    [] v.t = "num" -> v.n # 0
    [] v.t = "str" -> v.s # <<>>
    [] OTHER -> TRUE

DigitChar(d) ==
  CASE d = 0 -> "0" [] d = 1 -> "1" [] d = 2 -> "2" [] d = 3 -> "3"
    [] d = 4 -> "4" [] d = 5 -> "5" [] d = 6 -> "6" [] d = 7 -> "7"
    [] d = 8 -> "8" [] OTHER -> "9"

RECURSIVE natToString(_)
natToString(n) ==
  IF n < 10 THEN <<DigitChar(n)>>
  ELSE Append(natToString(n \div 10), DigitChar(n % 10))

\* ToString, as applied by a template literal
RECURSIVE toString(_)
RECURSIVE joinComma(_)
joinComma(a) ==
  IF a = <<>> THEN <<>>
  ELSE (IF Head(a).t \in {"null", "undefined"} THEN <<>> ELSE toString(Head(a)))
       \o (IF Len(a) > 1 THEN <<",">> \o joinComma(Tail(a)) ELSE <<>>)

toString(v) ==
  CASE v.t = "undefined" -> <<"u", "n", "d", "e", "f", "i", "n", "e", "d">>
    [] v.t = "null" -> <<"n", "u", "l", "l">>
    [] v.t = "bool" -> IF v.b THEN <<"t", "r", "u", "e">>
                       ELSE <<"f", "a", "l", "s", "e">>
    [] v.t = "num" -> IF v.n < 0 THEN <<"-">> \o natToString(0 - v.n)
                      ELSE natToString(v.n)
    [] v.t = "str" -> v.s
    [] v.t = "arr" -> joinComma(v.a)
    [] OTHER -> <<"[", "o", "b", "j", "e", "c", "t", " ", "O", "b", "j", "e",
                  "c", "t", "]">>

(***************************************************************************)
(* Response decoding: parseSSEResponse and the second half of sendRequest. *)
(***************************************************************************)
DataPrefix == <<"d", "a", "t", "a", ":", " ">>
DoneMarker == <<"[", "D", "O", "N", "E", "]">>
PreviewLen == 200

lineDataKeepsDone(line) ==
  IF startsWith(line, DataPrefix)
    THEN trim(substringFrom(line, 6))
    ELSE <<>>

\* the loop body of parseSSEResponse: what one line adds to jsonData
lineData(line) ==
  IF startsWith(line, DataPrefix)
    THEN LET data == trim(substringFrom(line, 6))
         IN IF data # <<>> /\ data # DoneMarker THEN data ELSE <<>>
    ELSE <<>>

RECURSIVE collectData(_, _)
collectData(lines, jsonData) ==
  IF lines = <<>> THEN jsonData
  ELSE collectData(Tail(lines), jsonData \o lineData(Head(lines)))

\* ok = FALSE stands for either Error thrown by parseSSEResponse
parseSSEResponse(text) ==
  LET jsonData == collectData(split(text), <<>>)
  IN IF jsonData # <<>> THEN JSONparse(jsonData)
     ELSE [ok |-> FALSE, v |-> Undefined]

\* the try/catch of sendRequest: sse records whether parseSSEResponse ran
decodeSseFirst(responseText) ==
  LET s == parseSSEResponse(responseText)
      j == JSONparse(responseText)
  IN IF s.ok THEN [ok |-> TRUE, v |-> s.v, sse |-> TRUE]
     ELSE [ok |-> j.ok, v |-> j.v, sse |-> TRUE]

decode(responseText) ==
  LET j == JSONparse(responseText)
  IN IF j.ok THEN [ok |-> TRUE, v |-> j.v, sse |-> FALSE]
     ELSE LET s == parseSSEResponse(responseText)
          IN [ok |-> s.ok, v |-> s.v, sse |-> TRUE]

isOkFrom200(status) == status >= 200
\* response.ok
isOk(status) == status >= 200 /\ status <= 299

Outcome(kind, status, text, value, env, sse) ==
  [kind |-> kind, status |-> status, text |-> text, value |-> value,
   env |-> env, sse |-> sse]

NoOutcome == Outcome("none", 0, <<>>, Undefined, Undefined, FALSE)
NotInitialized ==
  Outcome("SessionNotInitialized", 0, <<>>, Undefined, Undefined, FALSE)
FetchFailed == Outcome("FetchError", 0, <<>>, Undefined, Undefined, FALSE)

\* the property names sendRequest reads
FieldError == <<"e", "r", "r", "o", "r">>
FieldMessage == <<"m", "e", "s", "s", "a", "g", "e">>
FieldResult == <<"r", "e", "s", "u", "l", "t">>

\* sendRequest from the arrival of the HTTP response on.  kind is "return" or
\* the error raised; env is the decoded envelope.
sendRequestResponseAnyStatus(status, responseText) ==
  LET d == decode(responseText)
  IN IF ~d.ok
       THEN Outcome("UnparseableResponse", 0,
                    substringTo(responseText, PreviewLen), Undefined,
                    Undefined, d.sse)
     ELSE IF truthy(Get(d.v, FieldError))
       THEN Outcome("RemoteProcedureError", 0,
                    toString(Get(Get(d.v, FieldError), FieldMessage)),
                    Undefined, d.v, d.sse)
     ELSE Outcome("return", 0, <<>>, Get(d.v, FieldResult), d.v, d.sse)
\* sendRequest from the response on
sendRequestResponse(status, responseText) ==
  IF ~isOk(status)
    THEN Outcome("RemoteCallError", status, responseText, Undefined,
                 Undefined, FALSE)
  ELSE LET d == decode(responseText)
       IN IF ~d.ok
            THEN Outcome("UnparseableResponse", 0,
                         substringTo(responseText, PreviewLen), Undefined,
                         Undefined, d.sse)
          ELSE IF d.v.t = "null"
            THEN Outcome("TypeError", 0, <<>>, Undefined, d.v, d.sse)
          ELSE IF truthy(Get(d.v, FieldError))
            THEN Outcome("RemoteProcedureError", 0,
                         toString(Get(Get(d.v, FieldError), FieldMessage)),
                         Undefined, d.v, d.sse)
          ELSE Outcome("return", 0, <<>>, Get(d.v, FieldResult), d.v, d.sse)

(***************************************************************************)
(* Response bodies.                                                        *)
(***************************************************************************)
\* {"jsonrpc":"2.0","id":1,"result":{"ok":true}}
EnvOk ==
  <<"{", "\"", "j", "s", "o", "n", "r", "p", "c", "\"", ":", "\"", "2",
  ".", "0", "\"", ",", "\"", "i", "d", "\"", ":", "1", ",", "\"", "r",
  "e", "s", "u", "l", "t", "\"", ":", "{", "\"", "o", "k", "\"", ":", "t",
  "r", "u", "e", "}", "}">>
\* {"jsonrpc":"2.0","id":1,"error":{"code":-1,"message":"boom"}}
EnvErr ==
  <<"{", "\"", "j", "s", "o", "n", "r", "p", "c", "\"", ":", "\"", "2",
  ".", "0", "\"", ",", "\"", "i", "d", "\"", ":", "1", ",", "\"", "e",
  "r", "r", "o", "r", "\"", ":", "{", "\"", "c", "o", "d", "e", "\"", ":",
  "-", "1", ",", "\"", "m", "e", "s", "s", "a", "g", "e", "\"", ":", "\"",
  "b", "o", "o", "m", "\"", "}", "}">>
\* {"error":{"code":1}}
EnvErrNoMsg ==
  <<"{", "\"", "e", "r", "r", "o", "r", "\"", ":", "{", "\"", "c", "o",
  "d", "e", "\"", ":", "1", "}", "}">>
\* {"error":null,"result":1}
EnvErrNull ==
  <<"{", "\"", "e", "r", "r", "o", "r", "\"", ":", "n", "u", "l", "l",
  ",", "\"", "r", "e", "s", "u", "l", "t", "\"", ":", "1", "}">>
\* {"error":0,"result":[1]}
EnvErrZero ==
  <<"{", "\"", "e", "r", "r", "o", "r", "\"", ":", "0", ",", "\"", "r",
  "e", "s", "u", "l", "t", "\"", ":", "[", "1", "]", "}">>
\* {"error":"","result":"r"}
EnvErrEmpty ==
  <<"{", "\"", "e", "r", "r", "o", "r", "\"", ":", "\"", "\"", ",", "\"",
  "r", "e", "s", "u", "l", "t", "\"", ":", "\"", "r", "\"", "}">>
\* {"error":false}
EnvErrFalse ==
  <<"{", "\"", "e", "r", "r", "o", "r", "\"", ":", "f", "a", "l", "s",
  "e", "}">>
\* {"error":"bad","result":1}
EnvErrStr ==
  <<"{", "\"", "e", "r", "r", "o", "r", "\"", ":", "\"", "b", "a", "d",
  "\"", ",", "\"", "r", "e", "s", "u", "l", "t", "\"", ":", "1", "}">>
\* {"error":{"message":12},"result":1}
EnvErrNumMsg ==
  <<"{", "\"", "e", "r", "r", "o", "r", "\"", ":", "{", "\"", "m", "e",
  "s", "s", "a", "g", "e", "\"", ":", "1", "2", "}", ",", "\"", "r", "e",
  "s", "u", "l", "t", "\"", ":", "1", "}">>
\* {"result":1,"error":{"message":"m"}}
EnvBoth ==
  <<"{", "\"", "r", "e", "s", "u", "l", "t", "\"", ":", "1", ",", "\"",
  "e", "r", "r", "o", "r", "\"", ":", "{", "\"", "m", "e", "s", "s", "a",
  "g", "e", "\"", ":", "\"", "m", "\"", "}", "}">>
\* {}
EnvEmpty ==
  <<"{", "}">>
\* [1]
EnvArr ==
  <<"[", "1", "]">>
\* 7
EnvNum ==
  <<"7">>
\* "data: 1"
EnvStr ==
  <<"\"", "d", "a", "t", "a", ":", " ", "1", "\"">>
\* null
EnvNull ==
  <<"n", "u", "l", "l">>
\* {"error":{"message":[1,null,"a"]}}
EnvErrArrMsg ==
  <<"{", "\"", "e", "r", "r", "o", "r", "\"", ":", "{", "\"", "m", "e",
  "s", "s", "a", "g", "e", "\"", ":", "[", "1", ",", "n", "u", "l", "l",
  ",", "\"", "a", "\"", "]", "}", "}">>
\* text of more than PreviewLen characters that is not JSON
LongText == [i \in 1..(PreviewLen + 1) |-> "x"]
NewlineData == <<"\n">> \o DataPrefix

MaxPieces == 4
Pieces ==
  {DataPrefix, NewlineData, <<"\n">>, <<" ">>, DoneMarker, <<"1">>, <<"{">>,
   <<"}">>}

RECURSIVE flatten(_)
flatten(ps) == IF ps = <<>> THEN <<>> ELSE Head(ps) \o flatten(Tail(ps))

FlatBodies == {flatten(ps) : ps \in UNION {[1..n -> Pieces] : n \in 0..MaxPieces}}

Envelopes ==
  {EnvOk, EnvErr, EnvErrNoMsg, EnvErrNull, EnvErrZero, EnvErrEmpty,
   EnvErrFalse, EnvErrStr, EnvErrNumMsg, EnvBoth, EnvEmpty, EnvArr, EnvNum,
   EnvStr, EnvNull, EnvErrArrMsg}
FramePrefixes == {<<>>, DataPrefix, <<" ">> \o DataPrefix, <<"\n">>}
FrameSuffixes ==
  {<<>>, <<"\n", "\n">>, <<"\r", "\n">>, NewlineData \o DoneMarker,
   NewlineData \o <<"1">>}
FramedBodies ==
  {pre \o e \o post : pre \in FramePrefixes, e \in Envelopes,
                      post \in FrameSuffixes}

LongBodies ==
  {pre \o LongText \o post : pre \in FramePrefixes, post \in FrameSuffixes}

Bodies == FlatBodies \cup FramedBodies \cup LongBodies
Statuses == {200, 299, 300, 429, 500}

(***************************************************************************)
(* The client.                                                             *)
(***************************************************************************)
VARIABLES
  sessionId,    \* this.sessionId: Null or Some(text)
  requestId,    \* this.requestId
  net,          \* the requests handed to fetch, in order
  initPc,       \* where initialize() is: idle, fetch, sleep, notify, done, failed
  attempt,      \* the local attempt of initialize()
  initErr,      \* the error initialize() raised
  hsSent,       \* handshake requests sent by the current initialize()
  hsResp,       \* handshake responses received by the current initialize()
  sleeps,       \* the backoff delays of the current initialize(), in ms
  notifSent,    \* notifications sent by the current initialize()
  sidAtEntry,   \* sessionId when the current initialize() was called
  inits,        \* calls of initialize()
  issued,       \* session ids issued by the server
  completed,    \* calls of initialize() that returned normally
  callPc,       \* where callTool/listTools is: idle, fetch
  lastCall,     \* the circumstances of the latest callTool/listTools
  callOutcome,  \* what the latest callTool/listTools returned or raised
  callResp,     \* <<>>, or <<status, body>> of the response it got
  calls,        \* calls of callTool/listTools
  delPending,   \* DELETE requests not yet settled
  settled,      \* <<>>, or <<what came of the DELETE promise that the latest
                \* step settled>>
  closed,       \* close() has been called
  closeLog,     \* the effects of the close() calls that the latest operations
                \* were: <<>>, or <<previous, latest>> (previous = NoClose for one)
  respPc,       \* response handling on its own: off, start, done
  respStatus,
  respBody,
  respOutcome

runVars == <<hsSent, hsResp, sleeps, notifSent, sidAtEntry, inits>>
initVars == <<initPc, attempt, initErr, issued, completed, runVars>>
callVars == <<callPc, lastCall, callOutcome, callResp, calls>>
closeVars == <<delPending, settled, closed>>
clientVars ==
  <<sessionId, requestId, net, initVars, callVars, closeVars, closeLog>>
respVars == <<respPc, respStatus, respBody, respOutcome>>

\* the MCP server (src/mcp-servers/spotify-mcp-server)
VARIABLES
  sessions,        \* the keys of the sessions map
  infos,           \* the SessionInfo objects created so far, by session id
  currentContext,  \* the process-wide request context
  handlers,        \* the /mcp requests being handled, by slot
  created,         \* session ids generated so far
  now,             \* Date.now(), in minutes
  lastSweep,       \* when the sweep timer fired last (0: when it was set)
  sinceSignal,     \* Null, or <<the seconds since the first SIGINT/SIGTERM>>
  exitCode,        \* Null, or <<the code the process exited with>>
  validated,       \* the tokens the identity API has accepted
  destroyed,       \* the session ids removed by DELETE /mcp or by onclose
  checked,         \* None, or the validation the latest step finished
  arrived,         \* None, or the request that arrived in the latest step
  toolCall,        \* None, or the tool call the latest step executed
  response,        \* None, or the response the latest step sent itself
  dispatched       \* None, or what the latest step handed to a transport

\* the Spotify agent node of the backend graph
VARIABLES
  nodePc,          \* where the node function is: idle, initialize, listTools,
                   \* invoke, close, returned
  nodeToken,       \* the spotifyToken the node was created with
  agentTrace,      \* the agentTrace channel of GraphState
  traceBefore,     \* agentTrace when the node was entered
  partial          \* None, or the partial state the node returned

agentVars == <<nodePc, nodeToken, agentTrace, traceBefore, partial>>

procVars == <<now, lastSweep, sinceSignal, exitCode>>
registryVars == <<sessions, infos, created, procVars, validated, destroyed>>
serverVars ==
  <<registryVars, currentContext, handlers, checked, arrived, toolCall,
    response, dispatched>>
vars == <<clientVars, respVars, serverVars, agentVars>>

MaxInits == 2
MaxCalls == 1

Null == <<>>
Some(s) == <<s>>
\* the session id the server issues for its n-th session (a fresh UUID)
newSessionId(n) == Some(<<"s">> \o natToString(n))

maxRetries == 3
sameRequestId(id) == id
\* this.requestId++
nextRequestId(id) == id + 1
RECURSIVE pow2(_)
pow2(n) == IF n = 0 THEN 1 ELSE 2 * pow2(n - 1)
waitTimeFromTwo(a) == pow2(a + 1) * 1000
waitTime(a) == pow2(a) * 1000

noSessionCheck(sid) == FALSE
\* !this.sessionId
sessionMissing(sid) == sid = Null \/ sid = Some(<<>>)

Req(kind, id, sid) == [kind |-> kind, id |-> id, sid |-> sid]
Err(kind, status, text) == [kind |-> kind, status |-> status, text |-> text]
NoError == Err("none", 0, <<>>)
NoCall ==
  [phase |-> "none", initErr |-> "none", completed |-> 0, closed |-> FALSE,
   sent |-> FALSE]

ClientStatuses == {200, 429, 500}
ErrorTexts == {<<"n", "o">>}
CallBodies == {EnvErr, DataPrefix \o EnvOk \o <<"\n", "\n">>, <<"x">>}
CallResponses ==
  ({s \in ClientStatuses : isOk(s)} \X CallBodies)
    \cup {<<429, <<"n", "o">> >>, <<500, EnvErr>>}

ClientInit ==
  /\ sessionId = Null
  /\ requestId = 1
  /\ net = <<>>
  /\ initPc = "idle"
  /\ attempt = 0
  /\ initErr = NoError
  /\ hsSent = 0
  /\ hsResp = <<>>
  /\ sleeps = <<>>
  /\ notifSent = 0
  /\ sidAtEntry = Null
  /\ inits = 0
  /\ issued = 0
  /\ completed = 0
  /\ callPc = "idle"
  /\ lastCall = NoCall
  /\ callOutcome = NoOutcome
  /\ callResp = <<>>
  /\ calls = 0
  /\ delPending = 0
  /\ settled = <<>>
  /\ closed = FALSE
  /\ closeLog = <<>>

MaxHandlers == 2
MaxSessions == 2

None == [kind |-> "none"]
\* currentContext = {}
EmptyContext == [sessionId |-> Null, spotifyToken |-> Null]
Idle == [pc |-> "idle"]

\* the server after runServer(): no session, no request
ServerInit ==
  /\ sessions = {}
  /\ infos = <<>>
  /\ currentContext = EmptyContext
  /\ handlers = [h \in 1..MaxHandlers |-> Idle]
  /\ created = 0
  /\ now = 0
  /\ lastSweep = 0
  /\ sinceSignal = Null
  /\ exitCode = Null
  /\ validated = {}
  /\ destroyed = {}
  /\ checked = None
  /\ arrived = None
  /\ toolCall = None
  /\ response = None
  /\ dispatched = None

\* no node is running
NodeInit ==
  /\ nodePc = "off"
  /\ nodeToken = <<>>
  /\ agentTrace = <<>>
  /\ traceBefore = <<>>
  /\ partial = None

Init ==
  /\ ClientInit
  /\ respPc = "off"
  /\ respStatus = 0
  /\ respBody = <<>>
  /\ respOutcome = NoOutcome
  /\ ServerInit
  /\ NodeInit

\* the head of the retry loop of initialize() with attempt = a: the next
\* handshake request, or the throw that follows the loop
loopHead(a) ==
  IF a < maxRetries
    THEN /\ net' = Append(net, Req("initialize", Some(requestId), Null))
         /\ requestId' = nextRequestId(requestId)
         /\ hsSent' = (IF a = 0 THEN 0 ELSE hsSent) + 1
         /\ initPc' = "fetch"
         /\ initErr' = NoError
    ELSE /\ initPc' = "failed"
         /\ initErr' = Err("SessionInitializationFailed", 0, <<>>)
         /\ hsSent' = (IF a = 0 THEN 0 ELSE hsSent)
         /\ UNCHANGED <<net, requestId>>

\* initialize() is called, up to its first await
Initialize ==
  /\ initPc \in {"idle", "done", "failed"}
  /\ inits < MaxInits
  /\ inits' = inits + 1
  /\ attempt' = 0
  /\ loopHead(0)
  /\ sidAtEntry' = sessionId
  /\ hsResp' = <<>>
  /\ sleeps' = <<>>
  /\ notifSent' = 0
  /\ closeLog' = <<>> /\ settled' = <<>>
  /\ UNCHANGED <<sessionId, issued, completed, callVars, delPending, closed,
                 respVars, serverVars, agentVars>>

\* the handshake fetch resolves with a response
HandshakeResponse(status, header, text) ==
  /\ initPc = "fetch"
  /\ hsResp' = Append(hsResp, [status |-> status, sid |-> header,
                               text |-> text])
  /\ issued' = IF header \notin {Null, Some(<<>>)} THEN issued + 1 ELSE issued
  /\ IF status = 429
       THEN /\ sleeps' = Append(sleeps, waitTime(attempt))
            /\ initPc' = "sleep"
            /\ UNCHANGED <<sessionId, net, initErr, notifSent>>
     ELSE IF ~isOk(status)
       THEN /\ initPc' = "failed"
            /\ initErr' = Err("RemoteHandshakeError", status, text)
            /\ UNCHANGED <<sessionId, net, sleeps, notifSent>>
     ELSE /\ sessionId' = header
          /\ IF sessionMissing(header)
               THEN /\ initPc' = "failed"
                    /\ initErr' = Err("MissingSessionId", 0, <<>>)
                    /\ UNCHANGED <<net, notifSent>>
               ELSE /\ net' = Append(net, Req("notification", Null, header))
                    /\ notifSent' = notifSent + 1
                    /\ initPc' = "notify"
                    /\ UNCHANGED initErr
          /\ UNCHANGED sleeps
  /\ closeLog' = <<>> /\ settled' = <<>>
  /\ UNCHANGED <<requestId, attempt, hsSent, sidAtEntry, inits, completed,
                 callVars, delPending, closed, respVars, serverVars, agentVars>>

HandshakeResponds ==
  \/ \E status \in {s \in ClientStatuses : ~isOk(s)}, text \in ErrorTexts :
       HandshakeResponse(status, Null, text)
  \/ \E status \in {s \in ClientStatuses : isOk(s)},
        header \in {Null, Some(<<>>), newSessionId(issued + 1)} :
       HandshakeResponse(status, header, <<>>)

\* a fetch of initialize() rejects (network failure): handshake or notification
InitializeFetchFails ==
  /\ initPc \in {"fetch", "notify"}
  /\ initPc' = "failed"
  /\ initErr' = Err("FetchError", 0, <<>>)
  /\ closeLog' = <<>> /\ settled' = <<>>
  /\ UNCHANGED <<sessionId, requestId, net, attempt, issued, completed,
                 runVars, callVars, delPending, closed, respVars, serverVars, agentVars>>

\* the backoff timer fires: attempt++ and back to the loop head
SleepDone ==
  /\ initPc = "sleep"
  /\ attempt' = attempt + 1
  /\ loopHead(attempt + 1)
  /\ closeLog' = <<>> /\ settled' = <<>>
  /\ UNCHANGED <<sessionId, hsResp, sleeps, notifSent, sidAtEntry, inits,
                 issued, completed, callVars, delPending, closed, respVars, serverVars, agentVars>>

\* the fetch of sendNotification resolves: a non-2xx status is only logged
NotificationResponse(status) ==
  /\ initPc = "notify"
  /\ initPc' = "done"
  /\ completed' = completed + 1
  /\ closeLog' = <<>> /\ settled' = <<>>
  /\ UNCHANGED <<sessionId, requestId, net, attempt, initErr, issued, runVars,
                 callVars, delPending, closed, respVars, serverVars, agentVars>>

\* callTool(name, args) or listTools(): sendRequest up to its fetch
CallTool(method) ==
  /\ callPc = "idle"
  /\ calls < MaxCalls
  /\ calls' = calls + 1
  /\ lastCall' = [phase |-> initPc, initErr |-> initErr.kind,
                  completed |-> completed, closed |-> closed,
                  sent |-> ~sessionMissing(sessionId)]
  /\ callResp' = <<>>
  /\ IF sessionMissing(sessionId)
       THEN /\ callOutcome' = NotInitialized
            /\ UNCHANGED <<net, requestId, callPc>>
       ELSE /\ net' = Append(net, Req(method, Some(requestId), sessionId))
            /\ requestId' = nextRequestId(requestId)
            /\ callPc' = "fetch"
            /\ callOutcome' = NoOutcome
  /\ closeLog' = <<>> /\ settled' = <<>>
  /\ UNCHANGED <<sessionId, initVars, delPending, closed, respVars, serverVars, agentVars>>

\* the fetch of sendRequest resolves with a response
CallResponse(status, body) ==
  /\ callPc = "fetch"
  /\ callPc' = "idle"
  /\ callOutcome' = sendRequestResponse(status, body)
  /\ callResp' = <<status, body>>
  /\ closeLog' = <<>> /\ settled' = <<>>
  /\ UNCHANGED <<sessionId, requestId, net, initVars, lastCall, calls,
                 delPending, closed, respVars, serverVars, agentVars>>

\* the fetch of sendRequest rejects
CallFetchFails ==
  /\ callPc = "fetch"
  /\ callPc' = "idle"
  /\ callOutcome' = FetchFailed
  /\ callResp' = <<>>
  /\ closeLog' = <<>> /\ settled' = <<>>
  /\ UNCHANGED <<sessionId, requestId, net, initVars, lastCall, calls,
                 delPending, closed, respVars, serverVars, agentVars>>

NoClose == [sent |-> FALSE, changed |-> FALSE, none |-> TRUE]

closeKeepsSession(c) ==
  IF ~sessionMissing(c.sessionId)
    THEN [c EXCEPT !.net = Append(c.net, Req("DELETE", Null, c.sessionId)),
                   !.delPending = c.delPending + 1]
    ELSE c

\* close() on the fields it touches
close(c) ==
  IF ~sessionMissing(c.sessionId)
    THEN [sessionId |-> Null,
          net |-> Append(c.net, Req("DELETE", Null, c.sessionId)),
          delPending |-> c.delPending + 1]
    ELSE [c EXCEPT !.sessionId = Null]

Close ==
  /\ LET c == [sessionId |-> sessionId, net |-> net, delPending |-> delPending]
         d == close(c)
     IN /\ sessionId' = d.sessionId
        /\ net' = d.net
        /\ delPending' = d.delPending
        /\ closeLog' = <<IF closeLog = <<>> THEN NoClose ELSE closeLog[2],
                         [sent |-> d.net # c.net, changed |-> d # c]>>
  /\ settled' = <<>>
  /\ closed' = TRUE
  /\ UNCHANGED <<requestId, initVars, callVars, respVars, serverVars, agentVars>>

\* how the fetch of the DELETE can settle: a 2xx response, another response,
\* a rejection
DeleteResults == {"ok", "status", "reject"}
withoutCatch(r) == IF r = "reject" THEN "unhandled" ELSE "fulfilled"
\* fetch(...).catch((error) => console.warn(...)): what comes of the promise
catchWarn(r) == IF r = "reject" THEN "warned" ELSE "fulfilled"

\* the DELETE of close() settles
DeleteSettles(r) ==
  /\ delPending > 0
  /\ delPending' = delPending - 1
  /\ settled' = <<catchWarn(r)>>
  /\ closeLog' = <<>>
  /\ UNCHANGED <<sessionId, requestId, net, initVars, callVars, closed,
                 respVars, serverVars, agentVars>>

Next ==
  \/ Initialize
  \/ HandshakeResponds
  \/ InitializeFetchFails
  \/ SleepDone
  \/ \E status \in ClientStatuses : NotificationResponse(status)
  \/ \E method \in {"tools/call", "tools/list"} : CallTool(method)
  \/ \E r \in CallResponses : CallResponse(r[1], r[2])
  \/ CallFetchFails
  \/ Close
  \/ \E r \in DeleteResults : DeleteSettles(r)

Spec == Init /\ [][Next]_vars

(***************************************************************************)
(* Response handling on its own: every body of Bodies under status 200,    *)
(* the framed envelopes under the other statuses.                          *)
(***************************************************************************)
ResponseInit ==
  /\ ClientInit
  /\ respPc = "start"
  /\ respStatus \in Statuses
  /\ respBody \in (IF respStatus = 200 THEN Bodies ELSE FramedBodies)
  /\ respOutcome = NoOutcome
  /\ ServerInit
  /\ NodeInit

HandleResponse ==
  /\ respPc = "start"
  /\ respPc' = "done"
  /\ respOutcome' = sendRequestResponse(respStatus, respBody)
  /\ UNCHANGED <<respStatus, respBody, clientVars, serverVars, agentVars>>

ResponseNext == HandleResponse

SpecResponse == ResponseInit /\ [][ResponseNext]_vars

(***************************************************************************)
(* The MCP server: the session registry and the handlers of /mcp.  A       *)
(* handler runs from the arrival of its request to its first await, and    *)
(* from each await to the next one.                                        *)
(***************************************************************************)
TokA == <<"A">>
TokB == <<"B">>

\* the four places a request can carry a credential in
Cred(x, s, a, b) ==
  [xSpotifyToken |-> x, spotifyToken |-> s, authorization |-> a,
   bodyToken |-> b]
Credentials ==
  { Cred(Null, Null, Null, Null),
    Cred(Some(TokA), Null, Null, Null),
    Cred(Null, Some(TokB), Null, Null),
    Cred(Null, Null, Some(<<"b", "e", "a", "R", "e", "r", " ", "\t">> \o TokA),
         Null),
    Cred(Some(<<>>), Null, Some(<<"B", "e", "a", "r", "e", "r", " ">>),
         Some(TokB)) }
RequestIds == {JNum(7)}
SessionHeaders ==
  {Null, Some(<<>>)} \cup {newSessionId(k) : k \in 0..created}
\* the ids a JSON-RPC body can carry: none, numbers (0 too), strings ("" too)
JsonRpcIds == {Undefined, JNum(0), JNum(7), JStr(<<>>), JStr(<<"a">>)}
\* the POST requests to /mcp whose body has one of the ids
Posts(ids) ==
  [method : {"POST"}, sessionId : SessionHeaders, cred : Credentials,
   isInit : BOOLEAN, id : ids]
\* the requests to /mcp: a POST has a JSON-RPC body and maybe a credential
Requests(method) ==
  IF method = "POST"
    THEN Posts(RequestIds)
    ELSE [method : {method}, sessionId : SessionHeaders,
          cred : {Cred(Null, Null, Null, Null)}, isInit : {FALSE},
          id : {Undefined}]

lowerCase(c) ==
  CASE c = "B" -> "b" [] c = "E" -> "e" [] c = "A" -> "a" [] c = "R" -> "r"
    [] OTHER -> c
\* .replace(/^Bearer\s+/i, "")
replaceBearer(s) ==
  IF /\ Len(s) >= 7
     /\ [i \in 1..6 |-> lowerCase(s[i])] = <<"b", "e", "a", "r", "e", "r">>
     /\ IsWs(s[7])
    THEN trimStart(substringFrom(s, 6))
    ELSE s
\* a || b on header values
orElse(a, b) == IF sessionMissing(a) THEN b ELSE a
extractSpotifyToken(req) ==
  orElse(req.cred.xSpotifyToken,
    orElse(req.cred.spotifyToken,
      orElse(IF req.cred.authorization = Null THEN Null
             ELSE Some(replaceBearer(req.cred.authorization[1])),
        orElse(req.cred.bodyToken, Null))))

\* what the identity API can do with GET /me: 2xx, another status, no answer
IdentityResults == {"ok", "unauthorized", "unreachable"}
validateAcceptsAll(r) == TRUE
validateSpotifyToken(r) == r = "ok"

registryKeeps(S, id) == S
\* sessions.delete(id)
registryDelete(S, id) == S \ {id}

Context(sid, token) == [sessionId |-> sid, spotifyToken |-> token]
\* what a handler and the transport still read of the request after an
\* await: the JSON-RPC body (its id, whether it is an initialize request)
locals(req) == [method |-> req.method, id |-> req.id, isInit |-> req.isInit]
Handler(pc, req, token, session) ==
  [pc |-> pc, req |-> locals(req), token |-> token, session |-> session]
\* res.status(status).json({jsonrpc, error: {code}, id: body?.id || null})
ErrorResponse(status, code, req, fresh) ==
  [kind |-> "jsonrpc", status |-> status, code |-> code,
   id |-> IF truthy(req.id) THEN req.id ELSE JNull, req |-> req,
   fresh |-> fresh]
\* res.status(status).json({error: "..."})
PlainResponse(status, req) ==
  [kind |-> "plain", status |-> status, req |-> req, fresh |-> TRUE]
Dispatch(req, session, fresh) ==
  [kind |-> "dispatch", req |-> req, session |-> session, fresh |-> fresh]
touch(id) == [infos EXCEPT ![id].lastActivity = now]
FreeSlot(h) ==
  /\ handlers[h] = Idle
  /\ \A g \in 1..(h - 1) : handlers[g] # Idle

postBranchAnyInit(req) ==
  IF ~sessionMissing(req.sessionId) /\ req.sessionId[1] \in sessions
    THEN "existing"
  ELSE IF req.isInit THEN "new"
  ELSE "invalid"
\* the branch POST /mcp takes: if (sessionId && sessions.has(sessionId)),
\* else if (!sessionId && isInitializeRequest(req.body)), else
postBranch(req) ==
  IF ~sessionMissing(req.sessionId) /\ req.sessionId[1] \in sessions
    THEN "existing"
  ELSE IF sessionMissing(req.sessionId) /\ req.isInit THEN "new"
  ELSE "invalid"

\* the handler of POST /mcp answers itself and ends (finally: context reset)
postAnswers(h, r) ==
  /\ handlers' = [handlers EXCEPT ![h] = Idle]
  /\ response' = r
  /\ dispatched' = None
  /\ currentContext' = EmptyContext
\* the handler sets the context and awaits transport.handleRequest
postDispatches(h, req, session, sid, stored, fresh) ==
  /\ handlers' = [handlers EXCEPT ![h] = Handler("handle", req, Null, session)]
  /\ response' = None
  /\ dispatched' = Dispatch(req, session, fresh)
  /\ currentContext' = Context(sid, Some(stored))
postSuspends(h, pc, req, token, session) ==
  /\ handlers' = [handlers EXCEPT ![h] = Handler(pc, req, token, session)]
  /\ response' = None
  /\ dispatched' = None
  /\ UNCHANGED currentContext

\* POST /mcp arrives: up to the first await or the response
PostArrives(h, req) ==
  /\ FreeSlot(h)
  /\ req.method = "POST"
  /\ checked' = None
  /\ arrived' = req
  /\ toolCall' = None
  /\ UNCHANGED <<sessions, created, procVars, validated, destroyed>>
  /\ LET sid == req.sessionId
         token == extractSpotifyToken(req)
     IN IF postBranch(req) = "existing"
          THEN /\ infos' = touch(sid[1])
               /\ IF /\ ~sessionMissing(token)
                     /\ token[1] # infos[sid[1]].spotifyToken
                    THEN postSuspends(h, "validateExisting", req,
                                      token, sid[1])
                    ELSE postDispatches(h, req, sid[1], sid,
                                        infos[sid[1]].spotifyToken, TRUE)
        ELSE IF postBranch(req) = "new"
          THEN /\ UNCHANGED infos
               /\ IF sessionMissing(token)
                    THEN postAnswers(h, ErrorResponse(401, -32000, req, TRUE))
                    ELSE postSuspends(h, "validateNew", req, token,
                                      <<>>)
        ELSE /\ UNCHANGED infos
             /\ postAnswers(h, ErrorResponse(400, -32000, req, TRUE))

\* validateSpotifyToken resolves for a request on an existing session
ExistingValidated(h, r) ==
  /\ handlers[h].pc = "validateExisting"
  /\ arrived' = None
  /\ toolCall' = None
  /\ LET req == handlers[h].req
         token == handlers[h].token[1]
         id == handlers[h].session
     IN /\ checked' = [kind |-> "validation", token |-> token,
                       accepted |-> r = "ok"]
        /\ validated' = IF r = "ok" THEN validated \cup {token} ELSE validated
        /\ IF ~validateSpotifyToken(r)
             THEN /\ postAnswers(h, ErrorResponse(401, -32000, req, FALSE))
                  /\ UNCHANGED infos
             ELSE /\ infos' = [infos EXCEPT ![id].spotifyToken = token]
                  /\ postDispatches(h, req, id, Some(id), token, FALSE)
  /\ UNCHANGED <<sessions, created, procVars, destroyed>>

\* validateSpotifyToken resolves for an initialize request: the session
\* object and its transport are made, server.connect is awaited
NewValidated(h, r) ==
  /\ handlers[h].pc = "validateNew"
  /\ arrived' = None
  /\ toolCall' = None
  /\ LET req == handlers[h].req
         token == handlers[h].token[1]
         newId == newSessionId(created + 1)[1]
     IN /\ checked' = [kind |-> "validation", token |-> token,
                       accepted |-> r = "ok"]
        /\ validated' = IF r = "ok" THEN validated \cup {token} ELSE validated
        /\ IF ~validateSpotifyToken(r)
             THEN /\ postAnswers(h, ErrorResponse(401, -32000, req, FALSE))
                  /\ UNCHANGED <<infos, created>>
             ELSE /\ created < MaxSessions
                  /\ created' = created + 1
                  /\ infos' = [x \in DOMAIN infos \cup {newId} |->
                                 IF x = newId
                                   THEN [spotifyToken |-> token,
                                         lastActivity |-> now]
                                   ELSE infos[x]]
                  /\ postSuspends(h, "connect", req, Null, newId)
  /\ UNCHANGED <<sessions, procVars, destroyed>>

\* server.connect(transport) settles: the session is stored under its id and
\* the request goes to the transport, whose sessionId is still unset
TransportConnected(h, ok) ==
  /\ handlers[h].pc = "connect"
  /\ checked' = None
  /\ arrived' = None
  /\ toolCall' = None
  /\ LET req == handlers[h].req
         id == handlers[h].session
     IN IF ok
          THEN /\ sessions' = sessions \cup {id}
               /\ postDispatches(h, req, id, Null, infos[id].spotifyToken,
                                 FALSE)
          ELSE /\ postAnswers(h, ErrorResponse(500, -32603, req, FALSE))
               /\ UNCHANGED sessions
  /\ UNCHANGED <<infos, created, procVars, validated, destroyed>>

\* transport.handleRequest of a POST settles: the transport has answered, or
\* it threw and the handler answers 500; finally the context is reset
PostHandled(h, ok) ==
  /\ handlers[h].pc = "handle"
  /\ checked' = None
  /\ arrived' = None
  /\ toolCall' = None
  /\ postAnswers(h, IF ok THEN None
                    ELSE ErrorResponse(500, -32603, handlers[h].req, FALSE))
  /\ UNCHANGED registryVars

\* GET /mcp arrives: rejected, or the stream is set up and handed over
GetArrives(h, req) ==
  /\ FreeSlot(h)
  /\ req.method = "GET"
  /\ checked' = None
  /\ arrived' = req
  /\ toolCall' = None
  /\ UNCHANGED <<sessions, created, procVars, validated, destroyed>>
  /\ LET sid == req.sessionId
     IN IF sessionMissing(sid) \/ sid[1] \notin sessions
          THEN /\ response' =
                    PlainResponse(IF sessionMissing(sid) THEN 400 ELSE 404, req)
               /\ dispatched' = None
               /\ UNCHANGED <<infos, handlers, currentContext>>
          ELSE /\ infos' = touch(sid[1])
               /\ currentContext' = Context(sid, Some(infos[sid[1]].spotifyToken))
               /\ handlers' =
                    [handlers EXCEPT ![h] = Handler("stream", req, Null, sid[1])]
               /\ response' = None
               /\ dispatched' = Dispatch(req, sid[1], TRUE)

\* the stream ends (client disconnect, error, handleRequest throws): cleanup()
StreamCleanup(h) ==
  /\ handlers[h].pc = "stream"
  /\ handlers' = [handlers EXCEPT ![h] = Idle]
  /\ currentContext' = EmptyContext
  /\ checked' = None
  /\ arrived' = None
  /\ toolCall' = None
  /\ response' = None
  /\ dispatched' = None
  /\ UNCHANGED registryVars

\* DELETE /mcp arrives: rejected, or handed to the session's transport
DeleteArrives(h, req) ==
  /\ FreeSlot(h)
  /\ req.method = "DELETE"
  /\ checked' = None
  /\ arrived' = req
  /\ toolCall' = None
  /\ UNCHANGED registryVars
  /\ LET sid == req.sessionId
     IN IF sessionMissing(sid) \/ sid[1] \notin sessions
          THEN /\ response' =
                    PlainResponse(IF sessionMissing(sid) THEN 400 ELSE 404, req)
               /\ dispatched' = None
               /\ UNCHANGED <<handlers, currentContext>>
          ELSE /\ currentContext' = Context(sid, Some(infos[sid[1]].spotifyToken))
               /\ handlers' =
                    [handlers EXCEPT ![h] = Handler("closing", req, Null, sid[1])]
               /\ response' = None
               /\ dispatched' = Dispatch(req, sid[1], TRUE)

\* transport.handleRequest of a DELETE settles: the session is deleted, or
\* it threw and the handler answers 500; finally the context is reset
DeleteHandled(h, ok) ==
  /\ handlers[h].pc = "closing"
  /\ checked' = None
  /\ arrived' = None
  /\ toolCall' = None
  /\ handlers' = [handlers EXCEPT ![h] = Idle]
  /\ currentContext' = EmptyContext
  /\ dispatched' = None
  /\ LET id == handlers[h].session
     IN IF ok
          THEN /\ sessions' = registryDelete(sessions, id)
               /\ destroyed' = destroyed \cup {id}
               /\ response' = None
          ELSE /\ response' = [PlainResponse(500, handlers[h].req)
                                 EXCEPT !.fresh = FALSE]
               /\ UNCHANGED <<sessions, destroyed>>
  /\ UNCHANGED <<infos, created, procVars, validated>>

\* getTokenFromContext(): the token of the context, else the token of the
\* context's session, else it throws (Null)
getTokenFromContext ==
  IF ~sessionMissing(currentContext.spotifyToken)
    THEN currentContext.spotifyToken
  ELSE IF /\ ~sessionMissing(currentContext.sessionId)
          /\ currentContext.sessionId[1] \in sessions
    THEN Some(infos[currentContext.sessionId[1]].spotifyToken)
  ELSE Null

\* the transport runs the tool of a tools/call request while its
\* handleRequest is pending: the tool begins with getTokenFromContext()
ToolRuns(h) ==
  /\ handlers[h].pc = "handle"
  /\ ~handlers[h].req.isInit
  /\ toolCall' = [session |-> handlers[h].session, got |-> getTokenFromContext]
  /\ checked' = None
  /\ arrived' = None
  /\ response' = None
  /\ dispatched' = None
  /\ UNCHANGED <<registryVars, currentContext, handlers>>

\* the transport of a registered session closes: transport.onclose
TransportCloses(id) ==
  /\ id \in sessions
  /\ sessions' = registryDelete(sessions, id)
  /\ destroyed' = destroyed \cup {id}
  /\ checked' = None
  /\ arrived' = None
  /\ toolCall' = None
  /\ response' = None
  /\ dispatched' = None
  /\ UNCHANGED <<infos, created, procVars, validated, currentContext, handlers>>

ServerNext ==
  /\ UNCHANGED <<clientVars, respVars, agentVars>>
  /\ \/ \E h \in {g \in 1..MaxHandlers : FreeSlot(g)} :
          \E req \in Requests("POST") : PostArrives(h, req)
     \/ \E h \in 1..MaxHandlers, r \in IdentityResults : ExistingValidated(h, r)
     \/ \E h \in 1..MaxHandlers, r \in IdentityResults : NewValidated(h, r)
     \/ \E h \in 1..MaxHandlers, ok \in BOOLEAN : TransportConnected(h, ok)
     \/ \E h \in 1..MaxHandlers, ok \in BOOLEAN : PostHandled(h, ok)
     \/ \E h \in {g \in 1..MaxHandlers : FreeSlot(g)} :
          \E req \in Requests("GET") : GetArrives(h, req)
     \/ \E h \in 1..MaxHandlers : StreamCleanup(h)
     \/ \E h \in {g \in 1..MaxHandlers : FreeSlot(g)} :
          \E req \in Requests("DELETE") : DeleteArrives(h, req)
     \/ \E h \in 1..MaxHandlers, ok \in BOOLEAN : DeleteHandled(h, ok)
     \/ \E id \in sessions : TransportCloses(id)
     \/ \E h \in 1..MaxHandlers : ToolRuns(h)

SpecServer == Init /\ [][ServerNext]_vars

(***************************************************************************)
(* The sweep of idle sessions.  Time is in minutes; the timer fires on     *)
(* time.                                                                   *)
(***************************************************************************)
MaxTime == 36
\* const TIMEOUT = 30 * 60 * 1000
TIMEOUT == 30
\* setInterval(..., 5 * 60 * 1000)
SweepEvery == 5

expiredAtTimeout(id) == now - infos[id].lastActivity >= TIMEOUT
\* now - session.lastActivity > TIMEOUT
expired(id) == now - infos[id].lastActivity > TIMEOUT

\* a minute passes; a due timer fires before the next one does, and
\* server.connect, which waits for nothing outside the process, has settled
Tick ==
  /\ now < MaxTime
  /\ now - lastSweep < SweepEvery
  /\ \A h \in 1..MaxHandlers : handlers[h].pc # "connect"
  /\ now' = now + 1
  /\ checked' = None
  /\ arrived' = None
  /\ toolCall' = None
  /\ response' = None
  /\ dispatched' = None
  /\ UNCHANGED <<sessions, infos, created, lastSweep, sinceSignal, exitCode,
                 validated, destroyed, currentContext, handlers>>

\* the interval timer fires: every expired session's transport is closed,
\* which may throw (raises), and the session is deleted
Sweep(raises) ==
  /\ now - lastSweep = SweepEvery
  /\ lastSweep' = now
  /\ LET old == {id \in sessions : expired(id)}
         closedOk == old \ raises
     IN /\ raises \subseteq old
        /\ sessions' = sessions \ (closedOk \cup old)
        /\ destroyed' = destroyed \cup old
        /\ checked' = [kind |-> "sweep", closed |-> closedOk, threw |-> raises]
  /\ arrived' = None
  /\ toolCall' = None
  /\ response' = None
  /\ dispatched' = None
  /\ UNCHANGED <<infos, created, now, sinceSignal, exitCode, validated,
                 currentContext, handlers>>

\* the requests that open a session with token A and use it afterwards
SweepRequests ==
  {req \in Posts(RequestIds) : req.cred = Cred(Some(TokA), Null, Null, Null)}

SweepNext ==
  /\ UNCHANGED <<clientVars, respVars, agentVars>>
  /\ \/ \E req \in SweepRequests : PostArrives(1, req)
     \/ NewValidated(1, "ok")
     \/ TransportConnected(1, TRUE)
     \/ PostHandled(1, TRUE)
     \/ Tick
     \/ \E raises \in SUBSET sessions : Sweep(raises)

SpecSweep == Init /\ [][SweepNext]_vars

(***************************************************************************)
(* Shutdown.  gracefulShutdown runs to its end without interruption: the   *)
(* closing of the transports, the emptying of the registry and the call    *)
(* of server_instance.close are one step.  Time is in seconds.             *)
(***************************************************************************)
\* setTimeout(..., 10000)
ForceExitAfter == 10

shutdownKeepsFailed(raises) == raises
\* Promise.all(sessionPromises).finally(() => { sessions.clear(); ... })
shutdownClears(raises) == {}

quiet ==
  /\ arrived' = None
  /\ toolCall' = None
  /\ response' = None
  /\ dispatched' = None
  /\ UNCHANGED <<infos, created, now, lastSweep, validated, currentContext,
                 handlers>>

\* SIGINT or SIGTERM: gracefulShutdown closes every transport (a close may
\* throw: raises), clears the registry, asks the HTTP server to close and
\* sets the timer; a repeated signal does the same again
Signal(raises) ==
  /\ exitCode = Null
  /\ raises \subseteq sessions
  /\ sinceSignal' = IF sinceSignal = Null THEN Some(0) ELSE sinceSignal
  /\ checked' = [kind |-> "shutdown", tried |-> sessions, threw |-> raises]
  /\ sessions' = shutdownClears(raises)
  /\ destroyed' = destroyed \cup sessions
  /\ UNCHANGED exitCode
  /\ quiet

\* a second passes after the signal
ShutdownTick ==
  /\ exitCode = Null
  /\ sinceSignal # Null
  /\ sinceSignal[1] < ForceExitAfter
  /\ sinceSignal' = Some(sinceSignal[1] + 1)
  /\ checked' = None
  /\ UNCHANGED <<sessions, destroyed, exitCode>>
  /\ quiet

\* the HTTP server has finished closing: process.exit(0)
HttpClosed ==
  /\ exitCode = Null
  /\ sinceSignal # Null
  /\ exitCode' = Some(0)
  /\ checked' = None
  /\ UNCHANGED <<sessions, destroyed, sinceSignal>>
  /\ quiet

\* the timer fires: process.exit(1)
ForceExit ==
  /\ exitCode = Null
  /\ sinceSignal = Some(ForceExitAfter)
  /\ exitCode' = Some(1)
  /\ checked' = None
  /\ UNCHANGED <<sessions, destroyed, sinceSignal>>
  /\ quiet

\* the handlers go on until the process exits
ShutdownNext ==
  /\ UNCHANGED <<clientVars, respVars, agentVars>>
  /\ \/ /\ exitCode = Null
        /\ \/ \E req \in SweepRequests : PostArrives(1, req)
           \/ NewValidated(1, "ok")
           \/ TransportConnected(1, TRUE)
           \/ PostHandled(1, TRUE)
     \/ \E raises \in SUBSET sessions : Signal(raises)
     \/ ShutdownTick
     \/ HttpClosed
     \/ ForceExit

SpecShutdown ==
  /\ Init
  /\ [][ShutdownNext]_vars
  /\ WF_serverVars(ShutdownTick)
  /\ WF_serverVars(ForceExit)

\* POST /mcp on its own, one request at a time, with every kind of id
PostNext ==
  /\ UNCHANGED <<clientVars, respVars, agentVars>>
  /\ \/ \E req \in Posts(JsonRpcIds) : PostArrives(1, req)
     \/ \E r \in IdentityResults : ExistingValidated(1, r)
     \/ \E r \in IdentityResults : NewValidated(1, r)
     \/ \E ok \in BOOLEAN : TransportConnected(1, ok)
     \/ \E ok \in BOOLEAN : PostHandled(1, ok)

SpecPost == Init /\ [][PostNext]_vars

(***************************************************************************)
(* The Spotify agent node: one run of the function that                    *)
(* createSpotifyMusicAgentNode returns, on a client of its own, and the    *)
(* merge of what it returns into GraphState.  The client's operations are  *)
(* the actions of the client above, taken where the node calls them.       *)
(***************************************************************************)
MaxTrace == 2
AgentNames == {"fetchQlooInsights", "spotify_music"}
Traces == UNION {[1..n -> AgentNames] : n \in 0..MaxTrace}
NodeTokens == {<<>>, TokA}

\* reducer: (x, y) => (x || []).concat(y || [])
agentTraceReducer(x, y) == x \o y
\* [...(state.agentTrace || []), "spotify_music"]
nodeTrace(state) == Append(state, "spotify_music")
\* the partial state of both return statements
Partial(kind, state) == [finalResult |-> kind, agentTrace |-> nodeTrace(state)]

\* the graph before the node runs: any trace of earlier nodes
AgentInit ==
  /\ ClientInit
  /\ respPc = "off"
  /\ respStatus = 0
  /\ respBody = <<>>
  /\ respOutcome = NoOutcome
  /\ ServerInit
  /\ nodePc = "idle"
  /\ nodeToken \in NodeTokens
  /\ agentTrace \in Traces
  /\ traceBefore = <<>>
  /\ partial = None

\* the node returns p and the graph merges it into the channel
nodeReturns(p) ==
  /\ nodePc' = "returned"
  /\ partial' = p
  /\ agentTrace' = agentTraceReducer(agentTrace, p.agentTrace)
  /\ UNCHANGED <<nodeToken, traceBefore>>
nodeGoes(pc) ==
  /\ nodePc' = pc
  /\ UNCHANGED <<nodeToken, agentTrace, partial>>

\* the node function is entered: without a token it throws into its catch
NodeStarts ==
  /\ nodePc = "idle"
  /\ traceBefore' = agentTrace
  /\ IF nodeToken = <<>>
       THEN /\ nodePc' = "returned"
            /\ partial' = Partial("error", agentTrace)
            /\ agentTrace' = agentTraceReducer(agentTrace, nodeTrace(agentTrace))
            /\ UNCHANGED nodeToken
       ELSE nodeGoes("initialize")
  /\ UNCHANGED <<clientVars, respVars, serverVars>>

\* the client's own steps while the node awaits initialize(), listTools()
\* and calls close()
NodeClientStep ==
  /\ \/ nodePc = "initialize" /\ initPc = "idle" /\ Initialize
     \/ nodePc = "initialize" /\ HandshakeResponds
     \/ nodePc = "initialize" /\ InitializeFetchFails
     \/ nodePc = "initialize" /\ SleepDone
     \/ nodePc = "initialize" /\ \E status \in ClientStatuses :
                                    NotificationResponse(status)
     \/ nodePc = "listTools" /\ calls = 0 /\ CallTool("tools/list")
     \/ nodePc = "listTools" /\ \E r \in CallResponses :
                                   CallResponse(r[1], r[2])
     \/ nodePc = "listTools" /\ CallFetchFails
     \/ nodePc = "close" /\ ~closed /\ Close
     \/ \E r \in DeleteResults : DeleteSettles(r)

\* await mcpClient.initialize() settles
InitializeSettles ==
  /\ nodePc = "initialize"
  /\ initPc \in {"done", "failed"}
  /\ IF initPc = "done"
       THEN nodeGoes("listTools") /\ UNCHANGED traceBefore
       ELSE nodeReturns(Partial("error", traceBefore))
  /\ UNCHANGED <<clientVars, respVars, serverVars>>

\* await mcpClient.listTools() settles; toolsList.tools?.map(...) is read
ListToolsSettles ==
  /\ nodePc = "listTools"
  /\ calls > 0
  /\ callPc = "idle"
  /\ IF /\ callOutcome.kind = "return"
        /\ callOutcome.value \notin {Undefined, JNull}
       THEN nodeGoes("invoke") /\ UNCHANGED traceBefore
       ELSE nodeReturns(Partial("error", traceBefore))
  /\ UNCHANGED <<clientVars, respVars, serverVars>>

\* await agent.invoke(...) settles: the tools catch their own errors, the
\* model call can fail
InvokeSettles(ok) ==
  /\ nodePc = "invoke"
  /\ IF ok
       THEN nodeGoes("close") /\ UNCHANGED traceBefore
       ELSE nodeReturns(Partial("error", traceBefore))
  /\ UNCHANGED <<clientVars, respVars, serverVars>>

\* after mcpClient.close(): the node returns the final response
NodeCompletes ==
  /\ nodePc = "close"
  /\ closed
  /\ nodeReturns(Partial("response", traceBefore))
  /\ UNCHANGED <<clientVars, respVars, serverVars>>

AgentNext ==
  \/ NodeStarts
  \/ NodeClientStep
  \/ InitializeSettles
  \/ ListToolsSettles
  \/ \E ok \in BOOLEAN : InvokeSettles(ok)
  \/ NodeCompletes

SpecAgent == AgentInit /\ [][AgentNext]_vars

(***************************************************************************)
(* Properties.                                                             *)
(***************************************************************************)
Unset(sid) == sid = Null \/ sid = Some(<<>>)
Is2xx(status) == status \in 200..299
LastResp == hsResp[Len(hsResp)]
AllRateLimited == \A i \in 1..Len(hsResp) : hsResp[i].status = 429
Backoff == <<1000, 2000, 4000>>
SetMin(S) == CHOOSE m \in S : \A k \in S : m <= k
SetMax(S) == CHOOSE m \in S : \A k \in S : m >= k

\* C1: a callTool/listTools made before any initialize() has completed
\* successfully (none called yet, handshake or backoff pending, notification
\* in flight) fails with SessionNotInitialized and sends nothing.
C1_CallBeforeInitializedFails ==
  (lastCall.completed = 0 /\ lastCall.phase \in {"idle", "fetch", "sleep", "notify"})
    => (~lastCall.sent /\ callOutcome.kind = "SessionNotInitialized")

\* C2: when every handshake response is 429, initialize() sends exactly 3
\* handshake requests, sleeps 1000, 2000 and 4000 ms after them, sends no 4th
\* request and fails with SessionInitializationFailed, the session id still
\* unset.
C2_RateLimitedBackoff ==
  /\ hsSent <= 3
  /\ AllRateLimited =>
       /\ Len(hsResp) <= 3
       /\ initPc \in {"sleep", "failed"} => sleeps = SubSeq(Backoff, 1, Len(hsResp))
       /\ Len(hsResp) = 3 =>
            /\ hsSent = 3
            /\ initPc \in {"sleep", "failed"}
            /\ initPc = "failed" =>
                 /\ initErr.kind = "SessionInitializationFailed"
                 /\ Unset(sidAtEntry) => Unset(sessionId)
  /\ initErr.kind = "SessionInitializationFailed" =>
       (AllRateLimited /\ Len(hsResp) = 3 /\ sleeps = Backoff)

C2_Witness ==
  /\ initPc = "failed"
  /\ initErr.kind = "SessionInitializationFailed"
  /\ Len(hsResp) = 3
  /\ sleeps = Backoff
  /\ sessionId = Null

\* C3: the first 2xx handshake response with a session id ends the retry
\* loop (no further handshake request, no further sleep); 429 then 200 gives
\* exactly 2 handshake requests, one sleep of 1000 ms and a successful
\* initialize().
C3_SuccessEndsRetries ==
  /\ (hsResp # <<>> /\ Is2xx(LastResp.status) /\ ~Unset(LastResp.sid)) =>
       /\ initPc \in {"notify", "done", "failed"}
       /\ hsSent = Len(hsResp)
       /\ Len(sleeps) = Len(hsResp) - 1
  /\ ( /\ Len(hsResp) = 2
       /\ hsResp[1].status = 429
       /\ hsResp[2].status = 200
       /\ ~Unset(hsResp[2].sid)
       /\ initPc \in {"done", "failed"} ) =>
       (hsSent = 2 /\ sleeps = <<1000>> /\ initPc = "done")

HasField(v, k) == v.t = "obj" /\ \E i \in 1..Len(v.o) : v.o[i].k = k
JsFalsy(v) == v \in {Undefined, JNull, JBool(FALSE), JNum(0), JStr(<<>>)}
Handled == respPc = "done" /\ Is2xx(respStatus)

\* C4 as stated: an envelope with an error field makes the call fail with
\* RemoteProcedureError carrying error.message; an envelope without one makes
\* the call return the envelope's result field.
C4_ErrorFieldFails ==
  (Handled /\ respOutcome.env.t = "obj") =>
    IF HasField(respOutcome.env, FieldError)
      THEN /\ respOutcome.kind = "RemoteProcedureError"
           /\ respOutcome.text
                = toString(Get(Get(respOutcome.env, FieldError), FieldMessage))
           /\ respOutcome.value = Undefined
      ELSE /\ respOutcome.kind = "return"
           /\ respOutcome.value = Get(respOutcome.env, FieldResult)

\* C4 as amended: an envelope whose error field is truthy (not null, false, 0
\* or "") makes the call fail with RemoteProcedureError carrying
\* error.message; an envelope with no error field, or a falsy one, makes the
\* call return the envelope's result field.  The envelope is any decoded
\* value but null.
C4_TruthyErrorFails ==
  (Handled /\ respOutcome.env.t \notin {"undefined", "null"}) =>
    IF ~JsFalsy(Get(respOutcome.env, FieldError))
      THEN /\ respOutcome.kind = "RemoteProcedureError"
           /\ respOutcome.text
                = toString(Get(Get(respOutcome.env, FieldError), FieldMessage))
           /\ respOutcome.value = Undefined
      ELSE /\ respOutcome.kind = "return"
           /\ respOutcome.value = Get(respOutcome.env, FieldResult)

C4_Witness ==
  /\ Handled
  /\ respBody = EnvErr
  /\ respOutcome.kind = "RemoteProcedureError"
  /\ respOutcome.text = <<"b", "o", "o", "m">>

\* C5: a close() directly after a close() sends nothing and changes nothing,
\* and no session gets more than one DELETE.
C5_CloseIdempotent ==
  /\ (closeLog # <<>> /\ closeLog[1] # NoClose) =>
       (~closeLog[2].sent /\ ~closeLog[2].changed /\ sessionId = Null)
  /\ \A i, j \in 1..Len(net) :
       (net[i].kind = "DELETE" /\ net[j].kind = "DELETE" /\ net[i].sid = net[j].sid)
         => i = j
  /\ LET c == [sessionId |-> sessionId, net |-> net, delPending |-> delPending]
     IN close(close(c)) = close(c)

C5_Witness ==
  /\ closeLog # <<>>
  /\ closeLog[1].sent
  /\ ~closeLog[2].sent
  /\ sessionId = Null

\* the payload of an event-stream body, read off the text: the lines are the
\* maximal newline-free stretches; a line counts when it begins with "data: ";
\* its segment is what follows, without surrounding whitespace; empty and
\* [DONE] segments are dropped; the segments are joined in order
RefLineStarts(s) == {1} \cup {j + 1 : j \in {i \in 1..Len(s) : s[i] = "\n"}}
RefLine(s, a) ==
  LET nl == {j \in a..Len(s) : s[j] = "\n"}
  IN SubSeq(s, a, IF nl = {} THEN Len(s) ELSE SetMin(nl) - 1)
RefIsData(l) ==
  /\ Len(l) >= 6
  /\ <<l[1], l[2], l[3], l[4], l[5], l[6]>> = <<"d", "a", "t", "a", ":", " ">>
RefSegment(l) ==
  LET ink == {i \in 7..Len(l) : l[i] \notin {" ", "\t", "\r", "\n"}}
      seg == IF ink = {} THEN <<>> ELSE SubSeq(l, SetMin(ink), SetMax(ink))
  IN IF ~RefIsData(l) \/ seg = <<"[", "D", "O", "N", "E", "]">> THEN <<>> ELSE seg
RECURSIVE RefJoin(_, _)
RefJoin(s, starts) ==
  IF starts = {} THEN <<>>
  ELSE LET a == SetMin(starts)
       IN RefSegment(RefLine(s, a)) \o RefJoin(s, starts \ {a})
RefPayload(s) == RefJoin(s, RefLineStarts(s))
RefPayloadIsJson(s) == RefPayload(s) # <<>> /\ JSONparse(RefPayload(s)).ok
FirstChars(s, n) == [i \in 1..(IF Len(s) < n THEN Len(s) ELSE n) |-> s[i]]

\* C6: a 2xx body that is neither JSON nor an event stream whose payload is
\* JSON makes the call fail with UnparseableResponse carrying the first 200
\* characters of the body, and with nothing else.
C6_MalformedBodyUnparseable ==
  (Handled /\ ~JSONparse(respBody).ok /\ ~RefPayloadIsJson(respBody)) =>
    /\ respOutcome.kind = "UnparseableResponse"
    /\ respOutcome.text = FirstChars(respBody, 200)

C6_Witness ==
  /\ Handled
  /\ Len(respBody) > 200
  /\ RefPayload(respBody) # <<>>
  /\ respOutcome.kind = "UnparseableResponse"
  /\ Len(respOutcome.text) = 200

\* C7: a body that is valid JSON as a whole is decoded by parsing the whole
\* body, and parseSSEResponse is not consulted.
C7_DirectJsonFirst ==
  (Handled /\ JSONparse(respBody).ok) =>
    (~respOutcome.sse /\ respOutcome.env = JSONparse(respBody).v)

C7_Witness ==
  /\ Handled
  /\ respBody = EnvStr \o <<"\r", "\n">>
  /\ respOutcome.env = JStr(<<"d", "a", "t", "a", ":", " ", "1">>)
  /\ ~respOutcome.sse

\* C8: a body that is not JSON as a whole decodes to the JSON parse of the
\* joined payloads of its "data: " lines (prefix and surrounding whitespace
\* stripped, empty and [DONE] payloads skipped, other lines ignored).
C8_EventStreamPayload ==
  (Handled /\ ~JSONparse(respBody).ok /\ RefPayloadIsJson(respBody)) =>
    /\ respOutcome.sse
    /\ respOutcome.kind # "UnparseableResponse"
    /\ respOutcome.env = JSONparse(RefPayload(respBody)).v

C8_Witness ==
  /\ Handled
  /\ respBody = DataPrefix \o EnvOk \o <<"\n", "\n">>
  /\ respOutcome.kind = "return"
  /\ respOutcome.value = JObj(<<[k |-> <<"o", "k">>, v |-> JBool(TRUE)]>>)

\* C9: a handshake response that is neither 2xx nor 429 makes initialize()
\* fail at once with RemoteHandshakeError carrying the status and the body:
\* no retry, no sleep, no notification, the session id still unset.
C9_HandshakeErrorImmediate ==
  (hsResp # <<>> /\ ~Is2xx(LastResp.status) /\ LastResp.status # 429) =>
    /\ initPc = "failed"
    /\ initErr = Err("RemoteHandshakeError", LastResp.status, LastResp.text)
    /\ hsSent = Len(hsResp)
    /\ Len(sleeps) = Len(hsResp) - 1
    /\ notifSent = 0
    /\ Unset(sidAtEntry) => Unset(sessionId)

C9_Witness ==
  /\ Len(hsResp) = 3
  /\ LastResp.status = 500
  /\ initErr = Err("RemoteHandshakeError", 500, <<"n", "o">>)
  /\ sleeps = <<1000, 2000>>

\* C10: a 2xx handshake response without a session id header makes
\* initialize() fail with MissingSessionId: no notification, no retry, no
\* session id held, and a callTool made then fails with SessionNotInitialized.
C10_MissingSessionId ==
  /\ (hsResp # <<>> /\ Is2xx(LastResp.status) /\ LastResp.sid = Null) =>
       /\ initPc = "failed"
       /\ initErr.kind = "MissingSessionId"
       /\ notifSent = 0
       /\ hsSent = Len(hsResp)
       /\ sessionId = Null
  /\ lastCall.initErr = "MissingSessionId" =>
       (~lastCall.sent /\ callOutcome.kind = "SessionNotInitialized")

C10_Witness ==
  /\ initErr.kind = "MissingSessionId"
  /\ LastResp.sid = Null
  /\ lastCall.initErr = "MissingSessionId"
  /\ callOutcome.kind = "SessionNotInitialized"

\* C11 as stated: once a handshake got a 2xx response with a session id,
\* initialize() completes successfully whatever becomes of the
\* notifications/initialized request (non-2xx response, network failure).
C11_NotificationFailureSwallowed ==
  (hsResp # <<>> /\ Is2xx(LastResp.status) /\ ~Unset(LastResp.sid)) =>
    (initPc \in {"notify", "done"} /\ initErr = NoError)

IdBearing == {"initialize", "tools/call", "tools/list"}
IdRequests == SelectSeq(net, LAMBDA r : r.id # Null)
Sent(kinds) == {i \in 1..Len(net) : net[i].kind \in kinds}

\* C12: the ids of the requests that carry one are 1, 2, 3, ... in send
\* order: handshakes (the ones answered 429 too) and tools/call, tools/list
\* each take the next id; notifications and DELETE carry none and use none.
C12_RequestIdsSequential ==
  /\ \A i \in 1..Len(IdRequests) : IdRequests[i].id = Some(i)
  /\ requestId = Len(IdRequests) + 1
  /\ \A i \in 1..Len(net) : (net[i].id # Null) <=> (net[i].kind \in IdBearing)

C12_Witness ==
  /\ Len(net) = 5
  /\ net[1].kind = "initialize" /\ hsResp[1].status = 429
  /\ net[2].id = Some(2)
  /\ net[3].kind = "notification"
  /\ net[4].kind = "tools/call" /\ net[4].id = Some(3)
  /\ net[5].kind = "DELETE"
  /\ requestId = 4

\* C13: a non-2xx response to a tools/call or tools/list request (429 too)
\* makes the call fail with RemoteCallError carrying the status and the body
\* as received; the body is not decoded, no request is sent again and the
\* session id stays as it was.
C13_CallErrorNoRetry ==
  /\ [](  (callResp # <<>> /\ ~Is2xx(callResp[1])) =>
            /\ callOutcome = Outcome("RemoteCallError", callResp[1],
                                     callResp[2], Undefined, Undefined, FALSE)
            /\ callPc = "idle"
            /\ Cardinality(Sent({"tools/call", "tools/list"})) <= calls )
  /\ [][ (callResp' # <<>> /\ callResp = <<>> /\ ~Is2xx(callResp'[1])) =>
           (sessionId' = sessionId /\ net' = net /\ requestId' = requestId)
       ]_vars

C13_Witness ==
  /\ callResp = <<500, EnvErr>>
  /\ callOutcome.kind = "RemoteCallError"
  /\ callOutcome.text = EnvErr
  /\ ~Unset(sessionId)
  /\ initPc = "done"

\* C14: close() is best-effort: however its DELETE settles (2xx, another
\* status, a rejection, at once or later) nothing is raised, the rejection
\* being caught and logged; and right after close() the session id is unset.
C14_CloseBestEffort ==
  /\ settled # <<>> => settled[1] \in {"fulfilled", "warned"}
  /\ closeLog # <<>> => (sessionId = Null /\ closed)

C14_Witness ==
  /\ settled = <<"warned">>
  /\ closed
  /\ sessionId = Null
  /\ Sent({"DELETE"}) # {}

\* C15 as stated: a callTool/listTools on a client that was closed, or whose
\* initialize() raised (retries exhausted, handshake error, no session id,
\* failure after the handshake), fails with SessionNotInitialized and sends
\* nothing.
C15_TerminalCallsFailFast ==
  (lastCall.closed \/ lastCall.phase = "failed") =>
    (~lastCall.sent /\ callOutcome.kind = "SessionNotInitialized")

\* C16 as stated: Closed and Failed are absorbing and Ready leads only to
\* Closed: once close() was called, or initialize() has raised or returned,
\* no handshake request is sent any more.
C16_TerminalAbsorbing ==
  [][ (closed \/ initPc \in {"done", "failed"}) =>
        ~(Len(net') > Len(net) /\ net'[Len(net')].kind = "initialize") ]_vars

\* C17 as stated: one client has one logical session: at most one handshake
\* succeeds, and all requests with an mcp-session-id header carry the same id.
C17_OneLogicalSession ==
  /\ issued <= 1
  /\ Cardinality({net[i].sid : i \in Sent({"notification", "tools/call",
                                            "tools/list", "DELETE"})}) <= 1

NoCredential == Cred(Null, Null, Null, Null)

\* C18 as stated: a POST /mcp that carries no credential in any of the four
\* places is never handed to a session transport, be it an initialize
\* request or a request on an existing session.
C18_CredentialRequired ==
  (dispatched # None /\ dispatched.fresh /\ dispatched.req.method = "POST")
    => dispatched.req.cred # NoCredential

Rejected(r) == r.kind = "validation" /\ ~r.accepted

\* C19: every credential in the registry was accepted by the identity API: a
\* session is stored, and a stored credential replaced, only with a token the
\* API accepted in that very request; a failed validation is answered 401,
\* hands nothing to a transport, creates no session and changes no session.
C19_StoredCredentialsValidated ==
  /\ [](  /\ \A id \in sessions : infos[id].spotifyToken \in validated
          /\ Rejected(checked) =>
               /\ response.kind = "jsonrpc"
               /\ response.status = 401
               /\ dispatched = None )
  /\ [][ /\ Rejected(checked') =>
              (sessions' = sessions /\ infos' = infos /\ created' = created)
         /\ \A id \in DOMAIN infos :
              infos'[id].spotifyToken # infos[id].spotifyToken =>
                /\ checked' # None
                /\ checked'.accepted
                /\ infos'[id].spotifyToken = checked'.token
         /\ \A id \in DOMAIN infos' \ DOMAIN infos :
              /\ checked' # None
              /\ checked'.accepted
              /\ infos'[id].spotifyToken = checked'.token
         /\ \A id \in sessions' \ sessions : id \in DOMAIN infos
     ]_vars

C19_Witness ==
  /\ checked # None
  /\ checked.accepted
  /\ checked.token = TokB
  /\ dispatched # None
  /\ currentContext = Context(Some(dispatched.session), Some(TokB))
  /\ dispatched.session \in sessions
  /\ infos[dispatched.session].spotifyToken = TokB
  /\ validated = {TokA, TokB}

GoneHeader(req) ==
  ~Unset(req.sessionId) /\ req.sessionId[1] \in destroyed

\* C20: a session removed by a DELETE /mcp its transport handled, or by its
\* transport's onclose, is out of the registry for good: a later POST, GET or
\* DELETE with its id is answered 400, 404, 404 and reaches no transport; a
\* DELETE without a session id (400) or with an unknown one (404) leaves the
\* registry as it is.
C20_DestroyedSessionsRejected ==
  /\ [](  /\ destroyed \cap sessions = {}
          /\ (response # None /\ response.fresh /\ GoneHeader(response.req)) =>
               response.status
                 = (IF response.req.method = "POST" THEN 400 ELSE 404)
          /\ (dispatched # None /\ dispatched.fresh) =>
               dispatched.session \notin destroyed )
  /\ [][ /\ \A h \in 1..MaxHandlers :
              (handlers[h] = Idle /\ handlers'[h] # Idle) =>
                handlers'[h].session \notin destroyed
         /\ ( /\ response' # None
              /\ response'.fresh
              /\ response'.req.method = "DELETE"
              /\ response'.status \in {400, 404} ) =>
              (sessions' = sessions /\ infos' = infos /\ destroyed' = destroyed)
     ]_vars

C20_Witness ==
  /\ response # None
  /\ response.fresh
  /\ response.req.method = "POST"
  /\ response.req.isInit
  /\ response.req.cred.xSpotifyToken = Some(TokA)
  /\ GoneHeader(response.req)
  /\ response.status = 400
  /\ sessions # {}

\* C26 as stated: whenever initialize() has raised (retries exhausted,
\* handshake error, no session id, failure while sending the notification)
\* the client holds no session id (none, or the empty one that sendRequest
\* refuses).
C26_FailedInitializeHoldsNoSession ==
  initPc = "failed" => Unset(sessionId)

\* C27 as stated: for every 2xx body the call returns the result field of the
\* decoded envelope or fails with RemoteProcedureError or
\* UnparseableResponse, also when the body is JSON but no object (null, a
\* number, a string, an array).
C27_TwoXxOutcomeKinds ==
  Handled =>
    respOutcome.kind \in {"return", "RemoteProcedureError",
                          "UnparseableResponse"}

\* C29 as stated: when the node returns after its initialize() succeeded
\* (with the final response, or after listTools or the agent invocation
\* failed), close() has been called on its client and no session id is
\* held.
C29_NodeClosesSession ==
  (nodePc = "returned" /\ completed > 0) => (closed /\ sessionId = Null)

\* C30 as stated: after the node's partial state is merged, agentTrace is
\* the trace at node entry with one "spotify_music" entry appended, on the
\* success and the error path, for every prior trace.
C30_TraceAppendsOneEntry ==
  nodePc = "returned" => agentTrace = Append(traceBefore, "spotify_music")


Eligible(req) ==
  \/ ~Unset(req.sessionId) /\ req.sessionId[1] \in sessions
  \/ Unset(req.sessionId) /\ req.isInit
PostArrived == arrived # None /\ arrived.method = "POST"

\* C25: a POST /mcp goes on (to validation, or straight to a transport) only
\* with a session id that is in the registry, or with none and an initialize
\* body; every other POST (no session id and no initialize body; an unknown
\* or expired session id, initialize or not) is answered 400 at once, reaches
\* no transport, creates no session and leaves the registry as it is.
C25_PostDispatchConditions ==
  /\ [](  /\ (dispatched # None /\ dispatched.fresh
                /\ dispatched.req.method = "POST") =>
               /\ arrived = dispatched.req
               /\ ~Unset(arrived.sessionId)
               /\ arrived.sessionId[1] \in sessions
               /\ dispatched.session = arrived.sessionId[1]
          /\ (PostArrived /\ ~Eligible(arrived)) =>
               /\ response = ErrorResponse(400, -32000, arrived, TRUE)
               /\ dispatched = None )
  /\ [][ PostArrived' =>
           /\ sessions' = sessions
           /\ created' = created
           /\ DOMAIN infos' = DOMAIN infos
           /\ \A h \in 1..MaxHandlers :
                handlers'[h] # handlers[h] =>
                  /\ Eligible(arrived')
                  /\ handlers'[h].pc = "validateNew" =>
                       (Unset(arrived'.sessionId) /\ arrived'.isInit)
                  /\ handlers'[h].pc \in {"validateExisting", "handle"} =>
                       /\ arrived'.sessionId = Some(handlers'[h].session)
                       /\ handlers'[h].session \in sessions
           /\ ~Eligible(arrived') => (infos' = infos /\ handlers' = handlers)
       ]_vars

C25_Witness ==
  /\ response # None
  /\ response.kind = "jsonrpc"
  /\ response.status = 400
  /\ response.req.isInit
  /\ response.req.sessionId = newSessionId(0)
  /\ response.req.cred.spotifyToken = Some(TokB)
  /\ Cardinality(sessions) = 2

\* C23 as stated: a tool call executed for session S gets from
\* getTokenFromContext() the credential stored for S, whatever /mcp requests
\* for other sessions are handled meanwhile.  A token that is not the one
\* stored for S can only have been put into the context by a request for
\* another session; the "token not available" failure, which a request for
\* S itself can cause as well, is left aside here.
C23_ToolGetsOwnCredential ==
  (toolCall # None /\ toolCall.got # Null) =>
    toolCall.got = Some(infos[toolCall.session].spotifyToken)

\* C28 as stated: a request is handed to the transport of session S, and
\* the credential of S is replaced, only while S is in the registry, also
\* when a DELETE or a transport close for S comes while the POST awaits the
\* validation of a changed credential.
C28_DispatchOnlyToRegistered ==
  [][ /\ (dispatched' # None /\ dispatched'.req.method = "POST") =>
           dispatched'.session \in sessions'
      /\ \A id \in DOMAIN infos :
           infos'[id].spotifyToken # infos[id].spotifyToken => id \in sessions
    ]_vars


\* C24 as stated: every JSON-RPC error response that the POST /mcp handler
\* writes itself (400, 401, 500) carries an error code and the id of the
\* request, whatever that id is (a number, 0 too, a string, "" too), and
\* null only when the request has no id.
C24_ErrorResponseEchoesId ==
  (response # None /\ response.kind = "jsonrpc") =>
    /\ response.status \in {400, 401, 500}
    /\ response.code \in {-32000, -32603}
    /\ response.id = (IF response.req.id = Undefined THEN JNull
                      ELSE response.req.id)


IdleTime(id) == now - infos[id].lastActivity
Swept == checked.kind = "sweep"

\* C21: the sweep runs every 5 minutes; it closes the transport of, and
\* removes, exactly the registered sessions idle for more than 30 minutes,
\* also those whose transport throws on close, and none idle for 30 minutes
\* or less; so no session stays registered more than 35 minutes after its
\* last activity.
C21_SweepRemovesIdleSessions ==
  /\ [](  /\ now - lastSweep <= 5
          /\ \A id \in sessions :
               /\ IdleTime(id) <= 35
               /\ IdleTime(id) <= 30 + (now - lastSweep)
          /\ Swept => \A id \in sessions : IdleTime(id) <= 30 )
  /\ [][ /\ Swept' =>
              /\ lastSweep' = lastSweep + 5
              /\ now' = lastSweep'
              /\ sessions \ sessions' = {id \in sessions : IdleTime(id) > 30}
              /\ checked'.closed \cup checked'.threw = sessions \ sessions'
              /\ sessions' \subseteq sessions
         /\ ~Swept' => (lastSweep' = lastSweep /\ sessions \subseteq sessions')
       ]_vars

C21_Witness ==
  /\ Swept
  /\ checked.threw # {}
  /\ now = 35
  /\ \E id \in sessions : IdleTime(id) = 30


Signalled == checked.kind = "shutdown"

\* C22: on SIGINT or SIGTERM the server tries to close the transport of
\* every registered session, whether or not some close throws, and then the
\* registry is empty; the process exits in the end: with code 0 when the
\* HTTP server has closed, with code 1 when 10 seconds have passed first.
C22_GracefulShutdown ==
  /\ [](  /\ Signalled => (sessions = {} /\ sinceSignal # Null)
          /\ exitCode # Null =>
               /\ sinceSignal # Null
               /\ exitCode \in {Some(0), Some(1)}
               /\ exitCode = Some(1) => sinceSignal = Some(10) )
  /\ [][ /\ Signalled' =>
              (checked'.tried = sessions /\ checked'.threw \subseteq sessions)
         /\ exitCode # Null => exitCode' = exitCode
         /\ (sinceSignal # Null /\ exitCode = Null /\ exitCode' = Null) =>
              /\ sinceSignal' # Null
              /\ sinceSignal'[1] <= 10
       ]_vars
  /\ (sinceSignal # Null) ~> (exitCode # Null)

C22_Witness ==
  /\ Signalled
  /\ Cardinality(checked.tried) = 2
  /\ checked.threw # {}
  /\ checked.threw # checked.tried
  /\ sessions = {}
  /\ sinceSignal = Some(0)
====
